---- MODULE Spec2Model ----
(***************************************************************************)
(* Bulk dispatch engine of sendsms-fastapi.                                *)
(*                                                                         *)
(*   Spec        one dispatch job of async_chunk_functions.py              *)
(*               (send_messages, send_carousels, send_template_with_flows, *)
(*               validate_numbers_async) together with the senders and     *)
(*               notify_user of async_api_functions.py                     *)
(*   SpecChunks  the generator chunks(lst, 78)                             *)
(*   SpecApi     the endpoint send_sms_api of main.py                      *)
(*                                                                         *)
(* Python's None for a list argument is modelled by the empty sequence:    *)
(* the code only tests such arguments for truthiness or indexes them, and  *)
(* both raise on index 0.  None for a string is the string "None".         *)
(* HTTP status codes are written as strings ("200", "401") because the     *)
(* senders store either a status or the string client_error in error_code. *)
(* Contacts and template variables are numbers.                            *)
(***************************************************************************)
EXTENDS Integers, Sequences, FiniteSets, TLC

\* ------------------------------------------------------------------ bounds
\* longest contact_list of a dispatch job
MaxContacts == 4
\* longest csv_variables of a dispatch job
MaxRows == 4
\* width of one batch of a dispatch job.  The source passes the literal 78
\* to chunks (ChunkSize below, used by SpecChunks); Spec scales it so that
\* every completion order of a whole batch is enumerated.
BatchSize == 2
\* longest list handed to the generator in SpecChunks
MaxListLen == 160
\* largest coin balance / contact count of a send_sms_api request
MaxCoins == 3
MaxPairContacts == 3      \* recipients of each of two interleaved jobs
MaxUbContacts == 3        \* contacts of a balance update
MaxFlowContacts == 3      \* recipients of a flow request

\* ------------------------------------------------------- program constants
ChunkSize == 78

\* ---------------------------------------------------------------- helpers
Min(a, b) == IF a < b THEN a ELSE b

\* Python truthiness of a list (None and [] are both falsy)
Truthy(s) == Len(s) > 0

\* lst[a:b] for 0 <= a, with Python's clipping of b to len(lst)
Slice(lst, a, b) == SubSeq(lst, a + 1, Min(b, Len(lst)))

\* range(0, n, step) as a sequence
RECURSIVE RangeFrom(_, _, _)
RangeFrom(i, n, step) ==
    IF i >= n THEN << >> ELSE << i >> \o RangeFrom(i + step, n, step)

\* a mutant of ChunkAt: the slice runs one item too far
ChunkAt_overlap(lst, i, size) == Slice(lst, i, i + size + 1)

\* the slice one iteration of chunks yields
ChunkAt(lst, i, size) == Slice(lst, i, i + size)

\* a mutant of Chunks: an empty list yields one empty slice
Chunks_oneAtLeast(lst, size) ==
    LET starts == IF Len(lst) = 0 THEN << 0 >>
                  ELSE RangeFrom(0, Len(lst), size)
    IN  [k \in 1..Len(starts) |-> ChunkAt(lst, starts[k], size)]

\* list(chunks(lst, size))
Chunks(lst, size) ==
    LET starts == RangeFrom(0, Len(lst), size)
    IN  [k \in 1..Len(starts) |-> ChunkAt(lst, starts[k], size)]

\* list(zip(a, b))
Zip(a, b) == [k \in 1..Min(Len(a), Len(b)) |-> << a[k], b[k] >>]

RECURSIVE Concat(_)
Concat(ss) == IF ss = << >> THEN << >> ELSE Head(ss) \o Concat(Tail(ss))

\* ------------------------------------------------------------------ state
VARIABLES
    \* arguments of the dispatch entry point
    kind,            \* which entry point of async_chunk_functions.py runs
    media_type, contact_list, variable_list, csv_variables,
    unique_id, request_id,
    \* locals of the entry point
    pc,              \* position in the entry point
    session,         \* the job's aiohttp.ClientSession: none / open / closed
    bi,              \* number of batches taken from the batch iterator
    tasks,           \* the coroutines of the current batch, in issue order
    results,         \* the result list
    \* environment and history
    order,           \* indices of the current batch's tasks, as they resolved
    resolved,        \* every resolved send: the recipient and its value
    posts,           \* every session.post made to the provider, in call order
    sleeps,          \* the asyncio.sleep calls performed: their lengths
    notified,        \* every call of notify_user
    escaped,         \* the exception that left the entry point, or "None"
    returned,        \* what the entry point returned
    \* send_bot_messages only
    message_type,    \* argument message_type
    product_data,    \* argument product_data: "None" or "dict"
    \* the provider and the caller
    transport,       \* how the provider answers each address
    first            \* what an earlier call with the same arguments gave

\* the arguments of the call and the provider behind it
args == << kind, media_type, message_type, product_data, contact_list,
           variable_list, csv_variables, unique_id, request_id, transport >>

dvars == << args, pc, session, bi, tasks, results, order, resolved, posts,
            sleeps, notified, escaped, returned, first >>

\* state of SpecChunks
VARIABLES
    ch_lst,          \* the list handed to chunks
    ch_i,            \* the loop variable i of chunks
    ch_out,          \* the slices yielded so far
    ch_pc            \* running / exhausted

cvars == << ch_lst, ch_i, ch_out, ch_pc >>

\* state of SpecApi
VARIABLES
    api_users,       \* the user list the validation service holds
    api_upstream,    \* the status the GET of the user list answers; 0: it fails
    api_request,     \* the APIMessageRequest
    api_pc,          \* position in send_sms_api
    api_user,        \* user_data
    api_exc,         \* the HTTPException caught by send_sms_api, if any
    api_response,    \* what the caller receives
    api_calls,       \* evaluations of the call send_messages(...)
    api_posts,       \* POSTs made to the provider
    api_webhooks     \* POSTs made to the completion webhook

avars == << api_users, api_upstream, api_request, api_pc, api_user, api_exc,
            api_response, api_calls, api_posts, api_webhooks >>

\* state of SpecPair: two jobs in one process
VARIABLES
    jobs,            \* per job: its arguments, its position and its locals
    heap             \* the result lists of the process, by list cell

pvars == << jobs, heap >>

\* state of SpecBalance: one call of update_balance_and_report
VARIABLES
    ub_contacts,     \* argument contact_list: each item numeric or not
    ub_answer,       \* what the balance service does with the POST
    ub_pc,           \* position in the function
    ub_inner,        \* the exception raised inside the try block
    ub_raised,       \* the exception raised to the caller
    ub_result        \* the value returned

uvars == << ub_contacts, ub_answer, ub_pc, ub_inner, ub_raised, ub_result >>

\* state of SpecFlowApi: one request to send_flow_message_api of main.py
VARIABLES
    fl_recipients,   \* request.recipient_phone_number
    fl_answers,      \* what the provider does with each recipient's POST
    fl_pc,           \* position in the handler
    fl_dispatch,     \* how send_template_with_flows ended
    fl_inner,        \* the exception raised inside the try block
    fl_response      \* what the caller receives

fvars == << fl_recipients, fl_answers, fl_pc, fl_dispatch, fl_inner,
            fl_response >>

vars == << dvars, cvars, avars, pvars, uvars, fvars >>

Kinds == { "send_messages", "send_carousels", "send_template_with_flows",
           "validate_numbers_async", "send_bot_messages" }

\* values of message_type and product_data the bot sender is called with
MessageTypes == { "text", "video", "single_product_message" }
ProductData == { "None", "dict" }

\* what the provider (or the transport) does with one POST
Answers ==
    { [type |-> "http", status |-> "200", text |-> "ok"],
      [type |-> "http", status |-> "401", text |-> "denied"],
      [type |-> "client_error", status |-> "", text |-> "reset"],
      [type |-> "other_error", status |-> "", text |-> "timeout"] }

OkAnswer == [type |-> "http", status |-> "200", text |-> "ok"]

\* a provider that may answer any POST in any way
AnyTransport == [fixed |-> FALSE]

\* deterministic providers: the answer depends on the address only; the
\* addresses in bad get the answer wrong, every other address OkAnswer
FixedTransports ==
    { [fixed |-> TRUE, bad |-> "none", wrong |-> OkAnswer] } \cup
    { [fixed |-> TRUE, bad |-> b, wrong |-> a] :
        b \in { "odd", "all" }, a \in Answers \ { OkAnswer } }

TransportAnswer(tr, to) ==
    IF tr.bad = "all" \/ (tr.bad = "odd" /\ to % 2 = 1)
    THEN tr.wrong ELSE OkAnswer

\* no earlier call
NoFirst == [called |-> FALSE]

\* what the webhook does with the completion POST
WebhookAnswers == { "200", "500", "exception" }

\* rows of csv_variables: [contact, variable...]
RowShapes == { "full", "bare", "empty", "alien" }

Row(shape, j) ==
    CASE shape = "full"  -> << j, 10 + j >>
      [] shape = "bare"  -> << j >>
      [] shape = "empty" -> << >>
      [] shape = "alien" -> << 90 + j, 10 + j >>

CsvChoices ==
    { << >> } \cup
    { [j \in 1..m |-> Row(shape, j)] : m \in 1..MaxRows, shape \in RowShapes }

\* ---------------------------------------------------------------- senders
\* send_func chosen by the entry point for one contact
SendFunc(k, mt) ==
    CASE k = "send_messages" ->
             IF mt = "OTP" THEN "send_otp_message" ELSE "send_message"
      [] k = "send_carousels" -> "send_carousel"
      [] k = "send_template_with_flows" -> "send_template_with_flow"
      [] k = "validate_numbers_async" -> "validate_nums"
      [] k = "send_bot_messages" -> "send_bot_message"

\* a mutant of Effective: the row gives the variables only
Effective_keepContact(func, contact, variables, row) ==
    IF func \in { "send_message", "send_otp_message" } /\ Truthy(row)
    THEN [contact |-> contact, variables |-> Tail(row)]
    ELSE [contact |-> contact, variables |-> variables]

\* contact and variables a sender works with after its csv_variable_list
\* test; str() of a row item is the item, rows being lists of strings
Effective(func, contact, variables, row) ==
    IF func \in { "send_message", "send_otp_message" } /\ Truthy(row)
    THEN [contact |-> Head(row), variables |-> Tail(row)]
    ELSE [contact |-> contact, variables |-> variables]

\* the sender raises while it builds its payload: variables[0] of
\* send_otp_message with no variables
RaisesBeforePost(func, eff) ==
    \/ func = "send_otp_message" /\ ~Truthy(eff.variables)
    \/ /\ func = "send_bot_message"
       /\ message_type = "single_product_message"
       /\ product_data = "None"

BuildError == [exception |-> "IndexError", text |-> "variables[0]"]

\* product_data["product_retailer_id"] on None
ProductError == [exception |-> "TypeError", text |-> "product_data"]

BuildErrors == { BuildError, ProductError }

BuildErrorOf(func) ==
    IF func = "send_bot_message" THEN ProductError ELSE BuildError

\* the session a sender posts through: send_template_with_flow rebinds
\* session to a ClientSession of its own
PostSession(func) ==
    IF func = "send_template_with_flow" THEN "own" ELSE "job"

\* the if / elif chain of send_bot_message, in source order: the tested
\* message_type, the payload's type, the key the branch fills and the
\* type inside it (the header's type for the second video branch)
BotBranches ==
    << [test |-> "text", type |-> "text", key |-> "text", inner |-> "None"],
       [test |-> "image", type |-> "image", key |-> "image",
        inner |-> "None"],
       [test |-> "document", type |-> "document", key |-> "document",
        inner |-> "None"],
       [test |-> "video", type |-> "video", key |-> "video",
        inner |-> "None"],
       [test |-> "video", type |-> "interactive", key |-> "interactive",
        inner |-> "video header"],
       [test |-> "list_message", type |-> "interactive",
        key |-> "interactive", inner |-> "list"],
       [test |-> "reply_button_message", type |-> "interactive",
        key |-> "interactive", inner |-> "button"],
       [test |-> "single_product_message", type |-> "interactive",
        key |-> "interactive", inner |-> "product"],
       [test |-> "multi_product_message", type |-> "interactive",
        key |-> "interactive", inner |-> "product_list"],
       [test |-> "location_message", type |-> "location",
        key |-> "location", inner |-> "None"],
       [test |-> "location_request_message", type |-> "interactive",
        key |-> "interactive", inner |-> "LOCATION_REQUEST_MESSAGE"] >>

\* the payload before any branch has run
BarePayload == [type |-> "interactive", key |-> "None", inner |-> "None"]

\* a mutant of BotPayload: the last branch whose test holds builds the
\* payload
BotPayload_lastWins(mt) ==
    LET hits == SelectSeq(BotBranches, LAMBDA b : b.test = mt)
    IN  IF hits = << >> THEN BarePayload
        ELSE [type |-> hits[Len(hits)].type, key |-> hits[Len(hits)].key,
              inner |-> hits[Len(hits)].inner]

\* the payload send_bot_message posts for message_type mt: the first
\* branch of the chain whose test holds runs, and no other
BotPayload(mt) ==
    LET hits == SelectSeq(BotBranches, LAMBDA b : b.test = mt)
    IN  IF hits = << >> THEN BarePayload
        ELSE [type |-> Head(hits).type, key |-> Head(hits).key,
              inner |-> Head(hits).inner]

\* the POST a sender makes
PostOf(func, eff) ==
    IF func = "send_bot_message"
    THEN [func |-> func, to |-> eff.contact, parameters |-> eff.variables,
          session |-> PostSession(func),
          payload |-> BotPayload(message_type)]
    ELSE [func |-> func, to |-> eff.contact, parameters |-> eff.variables,
          session |-> PostSession(func)]

\* a mutant of TemplateOutcome: the status test accepts every HTTP answer
TemplateOutcome_anyHttp(contact, ans) ==
    CASE ans.type = "http" ->
             [status |-> "success", contact |-> contact,
              message_id |-> "template", response |-> ans.text]
      [] ans.type = "client_error" ->
             [status |-> "failed", contact |-> contact,
              error_code |-> "client_error", error_message |-> ans.text]
      [] OTHER -> [exception |-> "Exception", text |-> ans.text]

\* what send_message, send_otp_message and send_carousel make of an answer
TemplateOutcome(contact, ans) ==
    CASE ans.type = "http" /\ ans.status = "200" ->
             [status |-> "success", contact |-> contact,
              message_id |-> "template", response |-> ans.text]
      [] ans.type = "http" /\ ans.status # "200" ->
             [status |-> "failed", contact |-> contact,
              error_code |-> ans.status, error_message |-> ans.text]
      [] ans.type = "client_error" ->
             [status |-> "failed", contact |-> contact,
              error_code |-> "client_error", error_message |-> ans.text]
      [] OTHER -> [exception |-> "Exception", text |-> ans.text]

\* what validate_nums makes of an answer
ValidateOutcome(ans) ==
    CASE ans.type = "http" /\ ans.status = "200" ->
             [status |-> "success", response_text |-> ans.text]
      [] ans.type = "http" /\ ans.status # "200" ->
             [status |-> "failed", response_text |-> ans.text]
      [] OTHER -> [status |-> "error", message |-> ans.text]

\* what send_template_with_flow makes of an answer: the pair
\* (status_code, response_dict), or an exception
FlowOutcome(ans) ==
    CASE ans.type = "http" ->
             [status_code |-> ans.status, response_dict |-> ans.text]
      [] ans.type = "client_error" ->
             [exception |-> "HTTPException", status_code |-> "500",
              detail |-> ans.text]
      [] OTHER -> [exception |-> "Exception", text |-> ans.text]

\* the value a sender's coroutine resolves to: a returned value, or the
\* exception it raised
NoneValue == [is_none |-> TRUE]

\* send_bot_message returns None after any HTTP answer and after a
\* ClientError; any other exception leaves it
BotOutcome(ans) ==
    IF ans.type \in { "http", "client_error" } THEN NoneValue
    ELSE [exception |-> "Exception", text |-> ans.text]

Outcome(func, contact, ans) ==
    CASE func = "validate_nums" -> ValidateOutcome(ans)
      [] func = "send_bot_message" -> BotOutcome(ans)
      [] func = "send_template_with_flow" -> FlowOutcome(ans)
      [] OTHER -> TemplateOutcome(contact, ans)

IsException(r) == "exception" \in DOMAIN r

\* ------------------------------------------------------------- dispatcher
\* the batch iterator of an entry point, as the list of its items
\* (contact_batch, variable_batch); variable_batch None is << >>
BatchesOf(k, contacts, csv) ==
    IF k = "send_messages" /\ Truthy(csv)
    THEN Zip(Chunks(contacts, BatchSize), Chunks(csv, BatchSize))
    ELSE LET cs == Chunks(contacts, BatchSize)
         IN  [b \in 1..Len(cs) |-> << cs[b], << >> >>]

Batches == BatchesOf(kind, contact_list, csv_variables)

\* placeholders for the value of a coroutine that has not resolved and
\* for the answer to a POST that has not been answered
NoOut == [status |-> "unresolved"]
NoAnswer == [type |-> "none", status |-> "", text |-> ""]

\* first idx (from 1) at which variable_batch[idx] raises IndexError, or 0
FirstBadIndex(contact_batch, variable_batch) ==
    IF Truthy(variable_batch) /\ Len(variable_batch) < Len(contact_batch)
    THEN Len(variable_batch) + 1
    ELSE 0

\* the coroutine created for position idx of a batch
NewTask(contact_batch, variable_batch, idx) ==
    [contact |-> contact_batch[idx],
     row |-> IF Truthy(variable_batch) THEN variable_batch[idx] ELSE << >>,
     to |-> contact_batch[idx],
     st |-> "created",
     ans |-> NoAnswer,
     out |-> NoOut]

\* a mutant of GatherResults: the values in the order the tasks resolved
GatherResults_completion(ts, ord) == [i \in 1..Len(ts) |-> ts[ord[i]].out]

\* a mutant of GatherResults: the values up to the first one that is not a
\* success
GatherResults_abort(ts, ord) ==
    LET bad == { i \in 1..Len(ts) :
                   \/ IsException(ts[i].out)
                   \/ "status" \in DOMAIN ts[i].out
                      /\ ts[i].out.status # "success" }
        n == IF bad = {} THEN Len(ts)
             ELSE CHOOSE i \in bad : \A j \in bad : i <= j
    IN  [i \in 1..n |-> ts[i].out]

\* asyncio.gather(*tasks, return_exceptions=True): the values of the tasks
\* in the order of the argument list, raised exceptions as values
GatherResults(ts, ord) == [i \in 1..Len(ts) |-> ts[i].out]

InFlight == { i \in 1..Len(tasks) : tasks[i].st = "inflight" }

\* a mutant of FreshResults: the list of an earlier call is used again
FreshResults_shared(prev) == prev

\* results = [] at the head of the entry point; prev is the list an
\* earlier call built
FreshResults(prev) == << >>

\* results = []; async with aiohttp.ClientSession(...) as session
OpenSession ==
    /\ pc = "entry"
    /\ results' = FreshResults(results)
    /\ session' = "open"
    /\ pc' = "loop"
    /\ UNCHANGED << args, bi, tasks, order, posts, sleeps, notified,
                    escaped >>
    /\ UNCHANGED << resolved, first, returned, cvars, avars, pvars, uvars, fvars >>

\* one iteration of the for loop up to the creation of the batch's
\* coroutines; IndexError of variable_batch[idx] leaves the function
BuildTasks ==
    /\ pc = "loop"
    /\ bi < Len(Batches)
    /\ LET contact_batch == Batches[bi + 1][1]
           variable_batch == Batches[bi + 1][2]
           bad == FirstBadIndex(contact_batch, variable_batch)
       IN  IF bad = 0
           THEN /\ tasks' = [idx \in 1..Len(contact_batch) |->
                                NewTask(contact_batch, variable_batch, idx)]
                /\ pc' = "gather"
                /\ UNCHANGED << session, escaped >>
           ELSE /\ tasks' = [idx \in 1..(bad - 1) |->
                                NewTask(contact_batch, variable_batch, idx)]
                /\ escaped' = "IndexError"
                /\ session' = "closed"
                /\ pc' = "raised"
    /\ bi' = bi + 1
    /\ order' = << >>
    /\ UNCHANGED << args, results, posts,
                    sleeps, notified >>
    /\ UNCHANGED << resolved, first, returned, cvars, avars, pvars, uvars, fvars >>

\* the state of a coroutine after its first step: it has made its POST, or
\* it has raised while building the payload
Started(t) ==
    LET func == SendFunc(kind, media_type)
        eff == Effective(func, t.contact, variable_list, t.row)
    IN  IF RaisesBeforePost(func, eff)
        THEN [t EXCEPT !.to = eff.contact, !.st = "done",
                       !.out = BuildErrorOf(func)]
        ELSE [t EXCEPT !.to = eff.contact, !.st = "inflight"]

\* the POSTs of the coroutines ts, in order
RECURSIVE PostsOf(_)
PostsOf(ts) ==
    IF ts = << >> THEN << >>
    ELSE LET func == SendFunc(kind, media_type)
             eff == Effective(func, Head(ts).contact, variable_list,
                              Head(ts).row)
         IN  (IF RaisesBeforePost(func, eff) THEN << >>
              ELSE << PostOf(func, eff) >>) \o PostsOf(Tail(ts))

\* asyncio.gather schedules every coroutine of the batch; each runs up to
\* its session.post
Gather ==
    /\ pc = "gather"
    /\ tasks' = [i \in 1..Len(tasks) |-> Started(tasks[i])]
    /\ posts' = posts \o PostsOf(tasks)
    /\ order' = SelectSeq([i \in 1..Len(tasks) |-> i],
                          LAMBDA i : Started(tasks[i]).st = "done")
    /\ resolved' = resolved \cup
                      { [contact |-> tasks[i].contact,
                         out |-> Started(tasks[i]).out] :
                          i \in { j \in 1..Len(tasks) :
                                     Started(tasks[j]).st = "done" } }
    /\ pc' = "await"
    /\ UNCHANGED << args, session, bi,
                    results, sleeps, notified, escaped >>
    /\ UNCHANGED << first, returned, cvars, avars, pvars, uvars, fvars >>

\* the provider answers (or the transport fails) the POST of task i
Respond(i, ans) ==
    /\ pc = "await"
    /\ i \in InFlight
    /\ transport.fixed => ans = TransportAnswer(transport, tasks[i].to)
    /\ LET out == Outcome(SendFunc(kind, media_type), tasks[i].to, ans)
       IN  /\ tasks' = [tasks EXCEPT ![i].st = "done", ![i].ans = ans,
                                     ![i].out = out]
           /\ resolved' = resolved \cup
                             { [contact |-> tasks[i].contact, out |-> out] }
    /\ order' = Append(order, i)
    /\ UNCHANGED << args, pc, session, bi,
                    results, posts, sleeps, notified, escaped >>
    /\ UNCHANGED << first, returned, cvars, avars, pvars, uvars, fvars >>

\* a mutant of AllResolved: the await ends with the first task that resolves
AllResolved_any(ts) ==
    \/ Len(ts) = 0
    \/ \E i \in 1..Len(ts) : ts[i].st = "done"

\* the condition under which await asyncio.gather(*tasks,
\* return_exceptions=True) returns: every awaitable has resolved
AllResolved(ts) == \A i \in 1..Len(ts) : ts[i].st = "done"

\* asyncio.gather(*tasks) without return_exceptions raises the first
\* exception a task raises; only send_bot_messages calls it so
GatherRaises(k, ts) ==
    /\ k = "send_bot_messages"
    /\ \E i \in 1..Len(ts) : ts[i].st = "done" /\ IsException(ts[i].out)

\* gather returns once every task has resolved; results.extend, where the
\* entry point keeps a result list
GatherReturn ==
    /\ pc = "await"
    /\ AllResolved(tasks)
    /\ ~GatherRaises(kind, tasks)
    /\ results' = IF kind = "send_bot_messages" THEN results
                  ELSE results \o GatherResults(tasks, order)
    /\ pc' = "sleep"
    /\ UNCHANGED << args, session, bi, tasks,
                    order, posts, sleeps, notified, escaped >>
    /\ UNCHANGED << resolved, first, returned, cvars, avars, pvars, uvars, fvars >>

\* in send_bot_messages the exception of a task leaves the await, the
\* loop and the async with block, while the other tasks may be unresolved
GatherRaise ==
    /\ pc = "await"
    /\ GatherRaises(kind, tasks)
    /\ \E i \in 1..Len(tasks) :
          /\ tasks[i].st = "done" /\ IsException(tasks[i].out)
          /\ escaped' = tasks[i].out.exception
    /\ session' = "closed"
    /\ pc' = "raised"
    /\ UNCHANGED << args, bi, tasks, results, order, posts, sleeps,
                    notified >>
    /\ UNCHANGED << resolved, first, returned, cvars, avars, pvars, uvars, fvars >>

\* the pause between batches, in milliseconds
Pause == 200

\* a mutant of PauseAfter: the pause doubles after a batch with a failure
PauseAfter_backoff(ts) ==
    IF \E i \in 1..Len(ts) :
          "status" \in DOMAIN ts[i].out => ts[i].out.status # "success"
    THEN 2 * Pause ELSE Pause

\* the argument of asyncio.sleep after the batch ts: a literal
PauseAfter(ts) == Pause

\* await asyncio.sleep(0.2)
Sleep ==
    /\ pc = "sleep"
    /\ sleeps' = Append(sleeps, PauseAfter(tasks))
    /\ pc' = "loop"
    /\ UNCHANGED << args, session, bi, tasks,
                    results, order, posts, notified, escaped >>
    /\ UNCHANGED << resolved, first, returned, cvars, avars, pvars, uvars, fvars >>

\* the entry point calls notify_user after its loop
Notifies(k) == k # "send_bot_messages"

\* the batch iterator is exhausted: the async with block is left;
\* send_bot_messages then returns
SessionExit ==
    /\ pc = "loop"
    /\ bi = Len(Batches)
    /\ session' = "closed"
    /\ IF Notifies(kind)
       THEN pc' = "notify" /\ returned' = returned
       ELSE pc' = "done" /\ returned' = NoneValue
    /\ UNCHANGED << args, bi, tasks, results, order, posts, sleeps,
                    notified, escaped >>
    /\ UNCHANGED << resolved, first, cvars, avars, pvars, uvars, fvars >>

\* the entry point has not returned
NotReturned == [pending |-> TRUE]

\* the value of the entry point's return statement (None without one)
Returns(k, res) ==
    IF k \in { "send_messages", "send_carousels" }
    THEN [is_none |-> FALSE, value |-> res]
    ELSE NoneValue

\* a mutant of NotifyPayload: the payload tells how many sends succeeded
NotifyPayload_withResults(res, uid, rid) ==
    [status |-> "completed", unique_id |-> uid, report_id |-> rid,
     sent |-> Len(SelectSeq(res, LAMBDA r :
                  "status" \in DOMAIN r /\ r.status = "success"))]

\* the payload notify_user posts
NotifyPayload(res, uid, rid) ==
    [status |-> "completed", unique_id |-> uid, report_id |-> rid]

\* a mutant of NotifyUserCall: a webhook failure is retried once and then
\* raised
NotifyUserCall_retry(payload, w) ==
    IF w = "200"
    THEN [posts |-> << payload >>, raised |-> "None"]
    ELSE [posts |-> << payload, payload >>, raised |-> "WebhookError"]

\* one call of notify_user against a webhook that answers w: the POSTs it
\* makes and the exception it raises; the answer is only logged
NotifyUserCall(payload, w) ==
    [posts |-> << payload >>, raised |-> "None"]

\* await notify_user(results, unique_id, request_id), then the entry point
\* returns
NotifyUser(w) ==
    /\ pc = "notify"
    /\ LET payload == NotifyPayload(results, unique_id, request_id)
           call == NotifyUserCall(payload, w)
       IN  /\ notified' = Append(notified,
                                 [payload |-> payload,
                                  answer |-> w,
                                  posts |-> call.posts,
                                  unresolved |-> Cardinality(InFlight)])
           /\ escaped' = call.raised
           /\ IF call.raised = "None"
              THEN pc' = "done" /\ returned' = Returns(kind, results)
              ELSE pc' = "raised" /\ returned' = returned
    /\ UNCHANGED << args, session, bi, tasks, results, order, posts,
                    sleeps >>
    /\ UNCHANGED << resolved, first, cvars, avars, pvars, uvars, fvars >>

\* the caller, once its call has returned or raised, calls the entry point
\* again with the same arguments: new locals, the same process
CallAgain ==
    /\ pc \in { "done", "raised" }
    /\ ~first.called
    /\ first' = [called |-> TRUE, returned |-> returned,
                 escaped |-> escaped]
    /\ pc' = "entry" /\ session' = "none" /\ bi' = 0
    /\ tasks' = << >> /\ order' = << >>
    /\ escaped' = "None" /\ returned' = NotReturned
    /\ posts' = << >> /\ resolved' = {} /\ sleeps' = << >>
    /\ notified' = << >>
    /\ UNCHANGED << args, results, cvars, avars, pvars, uvars, fvars >>

\* ------------------------------------------------- the generator chunks
\* one iteration of "for i in range(0, len(lst), size): yield lst[i:i+size]"
ChunkYield ==
    /\ ch_pc = "running"
    /\ ch_i < Len(ch_lst)
    /\ ch_out' = Append(ch_out, ChunkAt(ch_lst, ch_i, ChunkSize))
    /\ ch_i' = ch_i + ChunkSize
    /\ UNCHANGED << ch_lst, ch_pc >>
    /\ UNCHANGED << dvars, avars, pvars, uvars, fvars >>

\* the range is exhausted: the generator stops
ChunkStop ==
    /\ ch_pc = "running"
    /\ ch_i >= Len(ch_lst)
    /\ ch_pc' = "exhausted"
    /\ UNCHANGED << ch_lst, ch_i, ch_out >>
    /\ UNCHANGED << dvars, avars, pvars, uvars, fvars >>

\* --------------------------------------------- send_sms_api of main.py
NoException == [status_code |-> 0, detail |-> "None"]
NoUser == [user_id |-> "None", api_token |-> "None", is_active |-> FALSE,
           coins |-> 0]
NoResponse == [http_status |-> 0, body |-> [status |-> "None"]]

\* next((u for u in users if ...), None) as the sequence of matches
Matching(users, user_id, api_token) ==
    SelectSeq(users, LAMBDA u : u.user_id = user_id /\ u.api_token = api_token)

\* fetch_user_data: the UserData it returns or the HTTPException it raises
FetchUserData(upstream, users, user_id, api_token) ==
    LET m == Matching(users, user_id, api_token)
    IN  CASE upstream = 0 ->
               [raised |-> TRUE, user |-> NoUser,
                exc |-> [status_code |-> 500,
                         detail |-> "Internal server error during user validation"]]
          [] upstream # 0 /\ upstream # 200 ->
               [raised |-> TRUE, user |-> NoUser,
                exc |-> [status_code |-> upstream,
                         detail |-> "Failed to connect to user validation service"]]
          [] upstream = 200 /\ m = << >> ->
               [raised |-> TRUE, user |-> NoUser,
                exc |-> [status_code |-> 401,
                         detail |-> "Failed to validate user credentials"]]
          [] upstream = 200 /\ m # << >> /\ ~Head(m).is_active ->
               [raised |-> TRUE, user |-> NoUser,
                exc |-> [status_code |-> 403,
                         detail |-> "User account is not active"]]
          [] OTHER ->
               [raised |-> FALSE, user |-> Head(m), exc |-> NoException]

\* a mutant of ValidateCoins: the comparison never fails
ValidateCoins_never(available_coins, required_contacts) ==
    [raised |-> FALSE, exc |-> NoException]

\* validate_coins: the HTTPException it raises, if any
ValidateCoins(available_coins, required_contacts) ==
    IF required_contacts > available_coins
    THEN [raised |-> TRUE,
          exc |-> [status_code |-> 402,
                   detail |-> "Insufficient coins. Please recharge your account"]]
    ELSE [raised |-> FALSE, exc |-> NoException]

\* send_sms_api answers with a plain dict, which the framework sends as
\* HTTP 200
FailedAnswer(detail) ==
    [http_status |-> 200, body |-> [status |-> "failed", detail |-> detail]]

\* Step 1 of send_sms_api
ApiValidateUser ==
    /\ api_pc = "validate_user"
    /\ LET r == FetchUserData(api_upstream, api_users, api_request.user_id,
                              api_request.api_token)
       IN  IF r.raised
           THEN /\ api_exc' = r.exc
                /\ api_response' = FailedAnswer(r.exc.detail)
                /\ api_pc' = "returned"
                /\ UNCHANGED api_user
           ELSE /\ api_user' = r.user
                /\ api_pc' = "validate_coins"
                /\ UNCHANGED << api_exc, api_response >>
    /\ UNCHANGED << api_users, api_upstream, api_request, api_calls,
                    api_posts, api_webhooks >>
    /\ UNCHANGED << dvars, cvars, pvars, uvars, fvars >>

\* Step 2 of send_sms_api
ApiValidateCoins ==
    /\ api_pc = "validate_coins"
    /\ LET r == ValidateCoins(api_user.coins, Len(api_request.contact_list))
       IN  IF r.raised
           THEN /\ api_exc' = r.exc
                /\ api_response' = FailedAnswer(r.exc.detail)
                /\ api_pc' = "returned"
           ELSE /\ api_pc' = "send"
                /\ UNCHANGED << api_exc, api_response >>
    /\ UNCHANGED << api_users, api_upstream, api_request, api_user,
                    api_calls, api_posts, api_webhooks >>
    /\ UNCHANGED << dvars, cvars, pvars, uvars, fvars >>

\* the keywords of the call in send_sms_api, and the parameters of
\* send_messages of main.py
SmsApiKeywords ==
    { "meta_token", "meta_phone_id", "template_name", "language",
      "media_type", "media_id", "contact_list", "variable_list" }
SendMessagesParams ==
    { "token", "phone_number_id", "template_name", "language", "media_type",
      "media_id", "contact_list", "variable_list" }

\* Python binds a keyword call only when every keyword names a parameter
\* and every parameter without default is given
CallBinds(keywords, params) == keywords = params

\* Step 3 of send_sms_api: the call of send_messages and the answer.
\* A call that does not bind raises TypeError before the body of
\* send_messages runs; except Exception turns it into the failed answer.
ApiSend ==
    /\ api_pc = "send"
    /\ api_calls' = api_calls + 1
    /\ LET n == Len(api_request.contact_list)
       IN  IF CallBinds(SmsApiKeywords, SendMessagesParams)
           THEN /\ api_posts' = api_posts \o api_request.contact_list
                /\ api_response' =
                     [http_status |-> 200,
                      body |-> [status |-> "success",
                                message |-> "Messages sent successfully",
                                contacts_processed |-> n,
                                remaining_coins |-> api_user.coins - n]]
           ELSE /\ api_posts' = api_posts
                /\ api_response' =
                     [http_status |-> 200,
                      body |-> [status |-> "failed",
                                detail |-> "Failed to send messages. Please try again later",
                                error |-> "TypeError"]]
    /\ api_pc' = "returned"
    /\ UNCHANGED << api_users, api_upstream, api_request, api_user, api_exc,
                    api_webhooks >>
    /\ UNCHANGED << dvars, cvars, pvars, uvars, fvars >>

\* ------------------------------------------------- two jobs, one process
\* two calls of send_messages (TEXT, no rows) whose steps interleave on the
\* event loop
Jobs == { 1, 2 }

\* what the provider does with a POST of either job
PairAnswers ==
    { OkAnswer, [type |-> "http", status |-> "401", text |-> "denied"] }

\* the recipients of job j: n numbers no other job has
PairContacts(j, n) == [i \in 1..n |-> 50 * (j - 1) + i]

PairIds(j) == IF j = 1 THEN << "u1", "r1" >> ELSE << "u2", "None" >>

\* a mutant of ResultsCell: the list is one object of the module
ResultsCell_shared(j) == 1

\* the list object the name results of call j is bound to: results = []
\* makes a new list in every call
ResultsCell(j) == j

PairBatches(j) == Chunks(jobs[j].contact_list, BatchSize)

\* results = []; async with aiohttp.ClientSession(...) as session
PairOpen(j) ==
    /\ jobs[j].pc = "entry"
    /\ heap' = [heap EXCEPT ![ResultsCell(j)] = FreshResults(@)]
    /\ jobs' = [jobs EXCEPT ![j].pc = "loop"]
    /\ UNCHANGED << dvars, cvars, avars, uvars,
                    fvars >>

\* the coroutines of the next batch are created and gather schedules them:
\* each makes its POST
PairGather(j) ==
    /\ jobs[j].pc = "loop"
    /\ jobs[j].bi < Len(PairBatches(j))
    /\ LET contact_batch == PairBatches(j)[jobs[j].bi + 1]
       IN  jobs' = [jobs EXCEPT
                     ![j].tasks =
                         [idx \in 1..Len(contact_batch) |->
                             [NewTask(contact_batch, << >>, idx)
                                 EXCEPT !.st = "inflight"]],
                     ![j].bi = @ + 1,
                     ![j].pc = "await"]
    /\ UNCHANGED << heap, dvars, cvars, avars, uvars,
                    fvars >>

\* the provider answers the POST of task i of job j
PairRespond(j, i, ans) ==
    /\ jobs[j].pc = "await"
    /\ i \in 1..Len(jobs[j].tasks)
    /\ jobs[j].tasks[i].st = "inflight"
    /\ jobs' = [jobs EXCEPT
                  ![j].tasks[i].st = "done",
                  ![j].tasks[i].ans = ans,
                  ![j].tasks[i].out =
                      Outcome("send_message", jobs[j].tasks[i].to, ans)]
    /\ UNCHANGED << heap, dvars, cvars, avars, uvars,
                    fvars >>

\* gather returns; results.extend(batch_results)
PairReturn(j) ==
    /\ jobs[j].pc = "await"
    /\ AllResolved(jobs[j].tasks)
    /\ heap' = [heap EXCEPT ![ResultsCell(j)] =
                    @ \o GatherResults(jobs[j].tasks, << >>)]
    /\ jobs' = [jobs EXCEPT ![j].pc = "sleep"]
    /\ UNCHANGED << dvars, cvars, avars, uvars,
                    fvars >>

\* await asyncio.sleep(0.2)
PairSleep(j) ==
    /\ jobs[j].pc = "sleep"
    /\ jobs' = [jobs EXCEPT ![j].pc = "loop"]
    /\ UNCHANGED << heap, dvars, cvars, avars, uvars,
                    fvars >>

\* the loop and the async with block are left
PairExit(j) ==
    /\ jobs[j].pc = "loop"
    /\ jobs[j].bi = Len(PairBatches(j))
    /\ jobs' = [jobs EXCEPT ![j].pc = "notify"]
    /\ UNCHANGED << heap, dvars, cvars, avars, uvars,
                    fvars >>

\* await notify_user(results, unique_id, request_id); return results
PairNotify(j, w) ==
    /\ jobs[j].pc = "notify"
    /\ LET res == heap[ResultsCell(j)]
           payload == NotifyPayload(res, jobs[j].unique_id,
                                    jobs[j].request_id)
       IN  jobs' = [jobs EXCEPT
                     ![j].notified =
                         Append(@, [payload |-> payload, answer |-> w,
                                    posts |->
                                       NotifyUserCall(payload, w).posts]),
                     ![j].returned = Returns("send_messages", res),
                     ![j].pc = "done"]
    /\ UNCHANGED << heap, dvars, cvars, avars, uvars,
                    fvars >>

\* ------------------------------------------- update_balance_and_report
\* the answers of the balance service: an HTTP answer whose JSON body holds
\* a report_id or not, or no answer at all
UbAnswers ==
    { [type |-> "http", status |-> st, report_id |-> r] :
        st \in { 200, 400, 404, 503 }, r \in { "rep1", "None" } } \cup
    { [type |-> "error", status |-> 0, report_id |-> "None"] }

UbNone == [exception |-> "None", status_code |-> 0]

\* phone_numbers and all_contact: int(phone.strip()) of every contact
UbBuild ==
    /\ ub_pc = "build"
    /\ IF \E i \in 1..Len(ub_contacts) : ub_contacts[i] = "text"
       THEN /\ ub_inner' = [exception |-> "ValueError", status_code |-> 0]
            /\ ub_pc' = "except"
       ELSE /\ ub_inner' = ub_inner
            /\ ub_pc' = "post"
    /\ UNCHANGED << ub_contacts, ub_answer, ub_raised, ub_result >>
    /\ UNCHANGED << dvars, cvars, avars, pvars, fvars >>

\* await client.post(...), then the test of response.status_code
UbPost ==
    /\ ub_pc = "post"
    /\ CASE ub_answer.type = "error" ->
               /\ ub_inner' = [exception |-> "ConnectError",
                               status_code |-> 0]
               /\ ub_pc' = "except"
         [] ub_answer.type = "http" /\ ub_answer.status # 200 ->
               /\ ub_inner' = [exception |-> "HTTPException",
                               status_code |-> ub_answer.status]
               /\ ub_pc' = "except"
         [] OTHER ->
               /\ ub_inner' = ub_inner
               /\ ub_pc' = "json"
    /\ UNCHANGED << ub_contacts, ub_answer, ub_raised, ub_result >>
    /\ UNCHANGED << dvars, cvars, avars, pvars, fvars >>

\* result = response.json(); return result["report_id"]
UbJson ==
    /\ ub_pc = "json"
    /\ IF ub_answer.report_id = "None"
       THEN /\ ub_inner' = [exception |-> "KeyError", status_code |-> 0]
            /\ ub_pc' = "except"
            /\ ub_result' = ub_result
       ELSE /\ ub_inner' = ub_inner
            /\ ub_pc' = "returned"
            /\ ub_result' = ub_answer.report_id
    /\ UNCHANGED << ub_contacts, ub_answer, ub_raised >>
    /\ UNCHANGED << dvars, cvars, avars, pvars, fvars >>

\* a mutant of UbWrap: an HTTPException passes through unchanged
UbWrap_passHttp(inner) ==
    IF inner.exception = "HTTPException"
    THEN [exception |-> "HTTPException", status_code |-> inner.status_code]
    ELSE [exception |-> "HTTPException", status_code |-> 500]

\* what the except Exception clause raises for the exception inner
UbWrap(inner) == [exception |-> "HTTPException", status_code |-> 500]

\* except Exception as e: raise HTTPException(status_code=500, ...)
UbExcept ==
    /\ ub_pc = "except"
    /\ ub_raised' = UbWrap(ub_inner)
    /\ ub_pc' = "raised"
    /\ UNCHANGED << ub_contacts, ub_answer, ub_inner, ub_result >>
    /\ UNCHANGED << dvars, cvars, avars, pvars, fvars >>

\* ------------------------------------ send_flow_message_api of main.py
\* what the provider does with one flow POST: an HTTP answer, or a
\* ClientError (status 0)
FlAnswers ==
    { [type |-> "http", status |-> 200],
      [type |-> "http", status |-> 401],
      [type |-> "client_error", status |-> 0] }

\* send_template_with_flow of main.py: the pair (status_code,
\* response_dict), or HTTPException(500) after a ClientError
FlSend(ans) ==
    IF ans.type = "http"
    THEN [status_code |-> ans.status, response_dict |-> "json"]
    ELSE [exception |-> "HTTPException", status_code |-> 500]

\* send_template_with_flows of main.py: gather without return_exceptions
\* raises the exception of a send; otherwise the function ends without a
\* return statement
FlowsResult(answers) ==
    IF \E i \in 1..Len(answers) : IsException(FlSend(answers[i]))
    THEN [exception |-> "HTTPException", status_code |-> 500]
    ELSE NoneValue

\* status_code, response_dict = await send_template_with_flows(...)
FlDispatch ==
    /\ fl_pc = "dispatch"
    /\ fl_dispatch' = FlowsResult(fl_answers)
    /\ IF IsException(FlowsResult(fl_answers))
       THEN /\ fl_inner' = FlowsResult(fl_answers)
            /\ fl_pc' = "except"
       ELSE /\ fl_inner' = fl_inner
            /\ fl_pc' = "unpack"
    /\ UNCHANGED << fl_recipients, fl_answers, fl_response >>
    /\ UNCHANGED << dvars, cvars, avars, pvars, uvars >>

\* the value can be unpacked into two names
IsPair(v) == DOMAIN v = { "status_code", "response_dict" }

\* the unpacking of the value and the test of status_code
FlUnpack ==
    /\ fl_pc = "unpack"
    /\ IF ~IsPair(fl_dispatch)
       THEN /\ fl_inner' = [exception |-> "TypeError", status_code |-> 0]
            /\ fl_pc' = "except"
            /\ fl_response' = fl_response
       ELSE IF fl_dispatch.status_code = 200
            THEN /\ fl_response' =
                        [kind |-> "message",
                         message |-> "Flow message sent successfully"]
                 /\ fl_pc' = "done"
                 /\ fl_inner' = fl_inner
            ELSE /\ fl_inner' =
                        [exception |-> "HTTPException",
                         status_code |-> fl_dispatch.status_code]
                 /\ fl_pc' = "except"
                 /\ fl_response' = fl_response
    /\ UNCHANGED << fl_recipients, fl_answers, fl_dispatch >>
    /\ UNCHANGED << dvars, cvars, avars, pvars, uvars >>

\* except Exception as e: raise HTTPException(status_code=500, ...)
FlExcept ==
    /\ fl_pc = "except"
    /\ fl_response' = [kind |-> "http_error", status_code |-> 500]
    /\ fl_pc' = "done"
    /\ UNCHANGED << fl_recipients, fl_answers, fl_dispatch, fl_inner >>
    /\ UNCHANGED << dvars, cvars, avars, pvars, uvars >>

\* --------------------------------------------------------- specifications
\* values of the variables of a part that does not run
IdleD ==
    /\ kind = "None" /\ media_type = "None"
    /\ contact_list = << >> /\ variable_list = << >> /\ csv_variables = << >>
    /\ unique_id = "None" /\ request_id = "None"
    /\ pc = "idle" /\ session = "none" /\ bi = 0
    /\ tasks = << >> /\ results = << >> /\ order = << >> /\ posts = << >>
    /\ resolved = {}
    /\ sleeps = << >> /\ notified = << >> /\ escaped = "None"
    /\ returned = NotReturned
    /\ message_type = "None" /\ product_data = "None"
    /\ transport = AnyTransport /\ first = NoFirst

IdleP == jobs = << >> /\ heap = << >>

IdleU ==
    /\ ub_contacts = << >> /\ ub_answer = [type |-> "none"]
    /\ ub_pc = "idle" /\ ub_inner = UbNone /\ ub_raised = UbNone
    /\ ub_result = "None"

IdleF ==
    /\ fl_recipients = << >> /\ fl_answers = << >> /\ fl_pc = "idle"
    /\ fl_dispatch = NotReturned /\ fl_inner = UbNone
    /\ fl_response = [kind |-> "none"]

IdleC == ch_lst = << >> /\ ch_i = 0 /\ ch_out = << >> /\ ch_pc = "idle"

IdleA ==
    /\ api_users = << >> /\ api_upstream = 200
    /\ api_request = [user_id |-> "None", api_token |-> "None",
                      contact_list |-> << >>]
    /\ api_pc = "idle" /\ api_user = NoUser /\ api_exc = NoException
    /\ api_response = NoResponse
    /\ api_calls = 0 /\ api_posts = << >> /\ api_webhooks = 0

\* the list of the contacts 1..n
Contacts(n) == [i \in 1..n |-> i]

\* a dispatch job at its call
InitCall ==
    /\ kind \in Kinds
    /\ contact_list \in { Contacts(n) : n \in 0..MaxContacts }
    /\ IF kind = "send_messages"
       THEN /\ media_type \in { "TEXT", "OTP" }
            /\ variable_list \in { << >>, << 7 >> }
            /\ csv_variables \in CsvChoices
       ELSE /\ media_type = "None"
            /\ variable_list = << >>
            /\ csv_variables = << >>
    /\ \E ids \in (IF Notifies(kind)
                    THEN { << "u1", "r1" >>, << "u2", "None" >> }
                    ELSE { << "None", "None" >> }) :
          unique_id = ids[1] /\ request_id = ids[2]
    /\ pc = "entry" /\ session = "none" /\ bi = 0
    /\ tasks = << >> /\ results = << >> /\ order = << >> /\ posts = << >>
    /\ resolved = {}
    /\ sleeps = << >> /\ notified = << >> /\ escaped = "None"
    /\ returned = NotReturned
    /\ IF kind = "send_bot_messages"
       THEN message_type \in MessageTypes /\ product_data \in ProductData
       ELSE message_type = "None" /\ product_data = "None"
    /\ first = NoFirst

InitD == InitCall /\ transport = AnyTransport

Init == InitD /\ IdleC /\ IdleA /\ IdleP /\ IdleU /\ IdleF

Next ==
    \/ OpenSession
    \/ BuildTasks
    \/ Gather
    \/ \E i \in 1..BatchSize, ans \in Answers : Respond(i, ans)
    \/ GatherReturn
    \/ GatherRaise
    \/ Sleep
    \/ SessionExit
    \/ \E w \in WebhookAnswers : NotifyUser(w)

Spec == Init /\ [][Next]_vars

\* send_messages called twice with the same arguments against a
\* deterministic provider
InitTwice ==
    /\ InitCall /\ kind = "send_messages"
    /\ transport \in FixedTransports
    /\ IdleC /\ IdleA /\ IdleP /\ IdleU /\ IdleF

NextTwice ==
    \/ OpenSession
    \/ BuildTasks
    \/ Gather
    \/ \E i \in 1..BatchSize, ans \in Answers : Respond(i, ans)
    \/ GatherReturn
    \/ Sleep
    \/ SessionExit
    \/ \E w \in WebhookAnswers : NotifyUser(w)
    \/ CallAgain

SpecTwice == InitTwice /\ [][NextTwice]_vars

\* two calls of send_messages started in one process
InitPair ==
    /\ \E n \in [Jobs -> 0..MaxPairContacts] :
          jobs = [j \in Jobs |->
                    [contact_list |-> PairContacts(j, n[j]),
                     unique_id |-> PairIds(j)[1],
                     request_id |-> PairIds(j)[2],
                     pc |-> "entry", bi |-> 0, tasks |-> << >>,
                     notified |-> << >>, returned |-> NotReturned]]
    /\ heap = [c \in Jobs |-> << >>]
    /\ IdleD /\ IdleC /\ IdleA /\ IdleU /\ IdleF

NextPair ==
    \E j \in Jobs :
        \/ PairOpen(j)
        \/ PairGather(j)
        \/ \E i \in 1..BatchSize, ans \in PairAnswers : PairRespond(j, i, ans)
        \/ PairReturn(j)
        \/ PairSleep(j)
        \/ PairExit(j)
        \/ \E w \in WebhookAnswers : PairNotify(j, w)

SpecPair == InitPair /\ [][NextPair]_vars

\* lists of n items, each numeric ("digits") or not ("text")
UbLists ==
    UNION { [1..n -> { "digits", "text" }] : n \in 0..MaxUbContacts }

\* one call of update_balance_and_report
InitBalance ==
    /\ ub_contacts \in UbLists
    /\ ub_answer \in UbAnswers
    /\ ub_pc = "build" /\ ub_inner = UbNone /\ ub_raised = UbNone
    /\ ub_result = "None"
    /\ IdleD /\ IdleC /\ IdleA /\ IdleP /\ IdleF

NextBalance == UbBuild \/ UbPost \/ UbJson \/ UbExcept

SpecBalance == InitBalance /\ [][NextBalance]_vars

\* one request to /send_flow_message/
InitFlowApi ==
    /\ \E n \in 0..MaxFlowContacts :
          /\ fl_recipients = Contacts(n)
          /\ fl_answers \in [1..n -> FlAnswers]
    /\ fl_pc = "dispatch" /\ fl_dispatch = NotReturned
    /\ fl_inner = UbNone /\ fl_response = [kind |-> "none"]
    /\ IdleD /\ IdleC /\ IdleA /\ IdleP /\ IdleU

NextFlowApi == FlDispatch \/ FlUnpack \/ FlExcept

SpecFlowApi == InitFlowApi /\ [][NextFlowApi]_vars

\* chunks(lst, 78) on a list of distinct items
InitChunks ==
    /\ IdleD /\ IdleA /\ IdleP /\ IdleU /\ IdleF
    /\ ch_lst \in { Contacts(n) : n \in 0..MaxListLen }
    /\ ch_i = 0 /\ ch_out = << >> /\ ch_pc = "running"

NextChunks == ChunkYield \/ ChunkStop

SpecChunks == InitChunks /\ [][NextChunks]_vars

\* one request to send_sms_api
ApiUsers ==
    { << >> } \cup
    { << [user_id |-> "u", api_token |-> "t", is_active |-> a, coins |-> c] >> :
        a \in BOOLEAN, c \in 0..MaxCoins }

InitApi ==
    /\ IdleD /\ IdleC /\ IdleP /\ IdleU /\ IdleF
    /\ api_users \in ApiUsers
    /\ api_upstream \in { 200, 503, 0 }
    /\ api_request \in
         { [user_id |-> "u", api_token |-> t, contact_list |-> Contacts(n)] :
             t \in { "t", "bad" }, n \in 0..(MaxCoins + 1) }
    /\ api_pc = "validate_user" /\ api_user = NoUser /\ api_exc = NoException
    /\ api_response = NoResponse
    /\ api_calls = 0 /\ api_posts = << >> /\ api_webhooks = 0

NextApi == ApiValidateUser \/ ApiValidateCoins \/ ApiSend

SpecApi == InitApi /\ [][NextApi]_vars

\* ------------------------------------------------------------ properties
\* the status of a resolved send; a raised exception has none
StatusOf(r) == IF "status" \in DOMAIN r THEN r.status ELSE "exception"

\* the send resolved other than with success
FailedOut(r) == StatusOf(r) \in { "failed", "error", "exception" }

\* the entry point has left its batch loop normally
LoopDone == pc \in { "notify", "done" }

\* the job is over: the entry point returned or raised
JobOver == pc \in { "done", "raised" }

\* the job runs without per-recipient rows
NoRows ==
    \/ kind = "send_carousels"
    \/ kind = "send_messages" /\ ~Truthy(csv_variables)

\* the tasks of the current batch resolved in another order than issued
OutOfOrder == \E a, b \in 1..Len(order) : a < b /\ order[a] > order[b]

\* C1: send_messages without per-recipient rows and send_carousels: once
\* the batch loop is over the result list has one entry per recipient and
\* entry i is the value the send for recipient i resolved to, whatever the
\* order in which the sends resolved.
C1_OrderPreserved ==
    (LoopDone /\ NoRows) =>
        /\ Len(results) = Len(contact_list)
        /\ \A i \in 1..Len(contact_list) :
              [contact |-> contact_list[i], out |-> results[i]] \in resolved

C1_Witness ==
    /\ pc = "done" /\ NoRows /\ OutOfOrder
    /\ Len(results) = Len(contact_list)
    /\ Len(results) > BatchSize
    /\ results[Len(results)] # results[Len(results) - 1]

CeilDiv(n, d) == (n + d - 1) \div d

\* C2: chunks(lst, 78) yields ceil(N/78) consecutive slices, all of 78
\* items but the last, which has N mod 78 items (78 when N is a positive
\* multiple of 78); the slices concatenated give back lst.
C2_Partition ==
    ch_pc = "exhausted" =>
        LET n == Len(ch_lst)
            m == Len(ch_out)
        IN  /\ m = CeilDiv(n, 78)
            /\ \A k \in 1..(m - 1) : Len(ch_out[k]) = 78
            /\ n > 0 => Len(ch_out[m]) = (IF n % 78 = 0 THEN 78 ELSE n % 78)
            /\ Concat(ch_out) = ch_lst

C2_Witness ==
    /\ ch_pc = "exhausted" /\ Len(ch_lst) = 100
    /\ Len(ch_out) = 2 /\ Len(ch_out[1]) = 78 /\ Len(ch_out[2]) = 22

\* the position in results of task i of the batch just gathered
ResultIndex(i) == Len(results) - Len(tasks) + i

\* C3: send_messages, send_carousels, validate_numbers_async: when a send
\* of a batch failed, every recipient of that batch had its send run (it
\* made its POST, or raised building its own payload) and has its own
\* value in the result list once the batch is gathered.
C3_SiblingsRecorded ==
    ( /\ pc = "sleep"
      /\ kind \in { "send_messages", "send_carousels",
                     "validate_numbers_async" }
      /\ \E i \in 1..Len(tasks) : FailedOut(tasks[i].out) ) =>
        /\ Len(results) >= Len(tasks)
        /\ \A i \in 1..Len(tasks) :
              /\ tasks[i].st = "done"
              /\ \/ \E p \in 1..Len(posts) : posts[p].to = tasks[i].to
                 \/ tasks[i].out = BuildError
              /\ [contact |-> tasks[i].contact,
                  out |-> results[ResultIndex(i)]] \in resolved

C3_Witness ==
    /\ pc = "sleep" /\ kind = "validate_numbers_async"
    /\ Len(tasks) = BatchSize
    /\ tasks[1].ans.type = "http" /\ tasks[1].ans.status = "401"
    /\ StatusOf(results[ResultIndex(1)]) = "failed"
    /\ StatusOf(results[ResultIndex(2)]) = "success"

TemplateKind == kind \in { "send_messages", "send_carousels" }

\* C4: send_message, send_otp_message, send_carousel: the value is success
\* exactly for HTTP 200; for another HTTP status it is failed with that
\* status and the response text; for a client fault it is failed with
\* client_error and the fault's text.
C4_OutcomeOfAnswer ==
    TemplateKind =>
        \A i \in 1..Len(tasks) :
            (tasks[i].st = "done" /\ tasks[i].ans # NoAnswer) =>
                LET a == tasks[i].ans
                    o == tasks[i].out
                IN  /\ (StatusOf(o) = "success") <=>
                          (a.type = "http" /\ a.status = "200")
                    /\ (a.type = "http" /\ a.status # "200") =>
                          /\ StatusOf(o) = "failed"
                          /\ o.error_code = a.status
                          /\ o.error_message = a.text
                    /\ a.type = "client_error" =>
                          /\ StatusOf(o) = "failed"
                          /\ o.error_code = "client_error"
                          /\ o.error_message = a.text

C4_Witness ==
    /\ pc = "done" /\ kind = "send_messages" /\ Len(results) = 4
    /\ StatusOf(results[3]) = "failed" /\ results[3].error_code = "401"
    /\ \A i \in { 1, 2, 4 } : StatusOf(results[i]) = "success"

\* the POSTs made for task i of the current batch
PostsFor(i) == { p \in 1..Len(posts) : posts[p].to = tasks[i].to }

\* C5 (as claimed): every sender invocation makes exactly one POST, so a
\* job with N recipients makes exactly N POSTs.
C5_ExactlyOnePost ==
    /\ \A i \in 1..Len(tasks) :
          tasks[i].st \in { "inflight", "done" } =>
              Cardinality(PostsFor(i)) = 1
    /\ pc = "done" => Len(posts) = Len(contact_list)

\* C6 (as claimed): during one job notify_user is called exactly once,
\* after every send of every batch has resolved, with the job's ids.
C6_NotifiedOnce ==
    Notifies(kind) =>
        /\ Len(notified) <= 1
        /\ JobOver => Len(notified) = 1
        /\ \A k \in 1..Len(notified) :
              /\ notified[k].unresolved = 0
              /\ bi = Len(Batches)
              /\ notified[k].payload.unique_id = unique_id
              /\ notified[k].payload.report_id = request_id

\* C7 (as claimed): no exception leaves the batch loop of send_messages,
\* for per-recipient lists of any length.
C7_NoEscape == kind = "send_messages" => escaped = "None"

\* the request is one validation must reject
ApiUnknownUser ==
    Matching(api_users, api_request.user_id, api_request.api_token) = << >>
ApiInactive ==
    /\ ~ApiUnknownUser
    /\ ~Head(Matching(api_users, api_request.user_id,
                       api_request.api_token)).is_active
ApiTooMany ==
    /\ ~ApiUnknownUser
    /\ Len(api_request.contact_list) >
         Head(Matching(api_users, api_request.user_id,
                       api_request.api_token)).coins
ApiRejected ==
    api_upstream = 200 /\ (ApiUnknownUser \/ ApiInactive \/ ApiTooMany)

\* C8: send_sms_api: when the credentials match no user, the account is
\* inactive or the contacts exceed the coins, the answer is the failed
\* one, the call of send_messages is never reached, and no POST goes to
\* the provider or to the completion webhook.
C8_RejectedBeforeDispatch ==
    ApiRejected =>
        /\ api_calls = 0 /\ api_posts = << >> /\ api_webhooks = 0
        /\ api_pc \in { "validate_user", "validate_coins", "returned" }
        /\ api_pc = "returned" => api_response.body.status = "failed"

C8_Witness ==
    /\ api_pc = "returned" /\ ApiTooMany /\ ~ApiInactive
    /\ api_exc.status_code = 402
    /\ api_response.body.status = "failed"

\* the status code the caller of send_sms_api can read off the answer
ResponseCode(r) ==
    IF "status_code" \in DOMAIN r.body THEN r.body.status_code
    ELSE r.http_status

\* C9 (as claimed): the answer to a rejected request carries the code of
\* the validation failure: 401, 403 or 402.
C9_CodeSurfaced ==
    (api_pc = "returned" /\ api_exc.status_code \in { 401, 403, 402 }) =>
        ResponseCode(api_response) = api_exc.status_code

\* C10 (as claimed): a request that passes both validations has every
\* contact sent to the provider and is answered with the success envelope.
C10_SuccessEnvelope ==
    (api_pc = "returned" /\ api_upstream = 200 /\ ~ApiRejected) =>
        /\ Len(api_posts) = Len(api_request.contact_list)
        /\ api_response.body.status = "success"
        /\ api_response.body.contacts_processed =
             Len(api_request.contact_list)
        /\ api_response.body.remaining_coins =
             api_user.coins - Len(api_request.contact_list)

\* the position in contact_list of task idx of the current batch
Position(idx) == (bi - 1) * BatchSize + idx

\* the batch of tasks has been created and not been replaced
InBatch == pc \in { "gather", "await", "sleep" }

\* task idx has made its POST
Posted(idx) ==
    /\ tasks[idx].st \in { "inflight", "done" }
    /\ tasks[idx].out \notin BuildErrors

SameLengthRows ==
    /\ kind = "send_messages"
    /\ Truthy(csv_variables)
    /\ Len(csv_variables) = Len(contact_list)

\* row[1:]
RowVariables(row) == IF Truthy(row) THEN Tail(row) ELSE << >>

\* C11: with rows of the length of contact_list, the send for
\* position i is built from contact i and row i and its parameters are the
\* variables of row i; without rows the parameters are variable_list.
C11_RowVariablesUsed ==
    (kind = "send_messages" /\ InBatch) =>
        \A idx \in 1..Len(tasks) :
            /\ SameLengthRows =>
                  /\ tasks[idx].contact = contact_list[Position(idx)]
                  /\ tasks[idx].row = csv_variables[Position(idx)]
                  /\ Posted(idx) =>
                        /\ PostsFor(idx) # {}
                        /\ \A p \in PostsFor(idx) :
                              posts[p].parameters =
                                  RowVariables(tasks[idx].row)
            /\ (~Truthy(csv_variables) /\ Posted(idx)) =>
                  /\ PostsFor(idx) # {}
                  /\ \A p \in PostsFor(idx) :
                        posts[p].parameters = variable_list

\* the address row idx gives the send of task idx
Address(idx) ==
    IF Truthy(tasks[idx].row) THEN Head(tasks[idx].row)
    ELSE contact_list[Position(idx)]

Outstanding ==
    Len(posts) - Cardinality({ r \in resolved : r.out \notin BuildErrors })

\* C14: within one job at most one batch (BatchSize sends, 78 in the
\* program) is outstanding, and a batch's sends start only when no send of
\* an earlier batch is outstanding.
C14_NoOverlap ==
    /\ Outstanding <= BatchSize
    /\ pc = "await" => Outstanding = Cardinality(InFlight)
    /\ pc \in { "entry", "loop", "gather", "sleep", "notify", "done" } =>
          Outstanding = 0
    /\ pc = "gather" => Cardinality(resolved) = (bi - 1) * BatchSize

C14_Witness ==
    /\ pc = "await" /\ bi = 2
    /\ Outstanding = BatchSize
    /\ Len(posts) = 2 * BatchSize

\* C20: after the sends of a batch have resolved there is exactly one pause
\* before the next batch's sends start, and every pause has the same
\* length whatever the batch's outcomes were.
C20_OnePausePerBatch ==
    /\ pc \in { "gather", "await", "sleep" } => Len(sleeps) = bi - 1
    /\ pc \in { "loop", "notify", "done" } => Len(sleeps) = bi
    /\ \A i \in 1..Len(sleeps) : sleeps[i] = Pause

C20_Witness ==
    /\ pc = "await" /\ bi = 2 /\ InFlight # {}
    /\ sleeps = << Pause >>
    /\ \E i \in 1..Len(results) : FailedOut(results[i])
    /\ \E i \in 1..Len(results) : StatusOf(results[i]) = "success"

\* C13: a call of notify_user makes at most one POST and never raises,
\* whatever the webhook answers, and what send_messages then returns is its
\* result list, which the webhook's answer does not change.
C13_WebhookFailureSwallowed ==
    [][pc = "notify" =>
          /\ pc' = "done" /\ escaped' = "None"
          /\ Len(notified') = Len(notified) + 1
          /\ Len(notified'[Len(notified')].posts) <= 1
          /\ results' = results
          /\ kind = "send_messages" =>
                returned' = [is_none |-> FALSE, value |-> results]]_vars

C13_Witness ==
    /\ pc = "done" /\ kind = "send_messages"
    /\ Len(notified) = 1 /\ notified[1].answer = "exception"
    /\ Len(notified[1].posts) = 1
    /\ Len(results) > 0
    /\ returned = [is_none |-> FALSE, value |-> results]

\* the send of task t raised an error its sender does not turn into a
\* failed outcome
Unexpected(t) == t.st = "done" /\ IsException(t.out)

\* C15: when a send of send_messages raises an unexpected error (a
\* non-client exception, a missing OTP variable), the result list holds for
\* that recipient a record with status error and the error's text, and the
\* job goes on with its remaining batches.
C15_ErrorRecorded ==
    (kind = "send_messages" /\ InBatch) =>
        \A idx \in 1..Len(tasks) :
            Unexpected(tasks[idx]) =>
                /\ pc # "raised"
                /\ pc = "sleep" =>
                      /\ StatusOf(results[ResultIndex(idx)]) = "error"
                      /\ "message" \in DOMAIN results[ResultIndex(idx)]
                      /\ results[ResultIndex(idx)].message =
                             tasks[idx].out.text

\* C16: send_bot_messages calls notify_user exactly once, after its last
\* batch.
C16_BotNotifiedOnce ==
    kind = "send_bot_messages" =>
        /\ Len(notified) <= 1
        /\ pc = "done" => Len(notified) = 1
        /\ Len(notified) = 1 => bi = Len(Batches)

\* C17: in send_bot_messages an exception raised by one send does not
\* leave the call: every batch is dispatched and the call returns.
C17_BotExceptionNotFatal ==
    kind = "send_bot_messages" =>
        /\ escaped = "None"
        /\ pc # "raised"
        /\ (pc = "loop" /\ \E r \in resolved : IsException(r.out)) =>
              Len(sleeps) = bi

\* which positions of a result list are successes
Pattern(res) == [i \in 1..Len(res) |-> StatusOf(res[i]) = "success"]

\* C18: a second call of send_messages with the same arguments, against a
\* provider whose answer depends on the address only, ends as the first
\* did: it returns a result list of the same length with successes at the
\* same positions (or raises the same exception).
C18_SameAgain ==
    (first.called /\ JobOver) =>
        /\ escaped = first.escaped
        /\ returned = NotReturned <=> first.returned = NotReturned
        /\ returned # NotReturned =>
              /\ ~returned.is_none /\ ~first.returned.is_none
              /\ Len(returned.value) = Len(first.returned.value)
              /\ Pattern(returned.value) = Pattern(first.returned.value)

C18_Witness ==
    /\ first.called /\ pc = "done"
    /\ Len(returned.value) > BatchSize
    /\ \E i \in 1..Len(returned.value) :
          StatusOf(returned.value[i]) = "success"
    /\ \E i \in 1..Len(returned.value) : FailedOut(returned.value[i])
    /\ Pattern(returned.value) = Pattern(first.returned.value)

\* the recipients named by the records of a result list
NamedIn(res) == { res[i].contact : i \in 1..Len(res) }

\* C19: of two interleaved jobs, each one's result list holds outcomes of
\* its own recipients only, at its end exactly one per recipient and in
\* order, and its one notification carries its own ids.
C19_JobsIsolated ==
    (jobs # << >>) =>
        \A j \in Jobs :
            LET res == heap[j]
                mine == jobs[j].contact_list
            IN  /\ jobs[j].pc # "entry" =>
                      /\ Len(res) <= Len(mine)
                      /\ \A i \in 1..Len(res) : res[i].contact = mine[i]
                /\ \A k \in 1..Len(jobs[j].notified) :
                      /\ jobs[j].notified[k].payload.unique_id =
                             PairIds(j)[1]
                      /\ jobs[j].notified[k].payload.report_id =
                             PairIds(j)[2]
                /\ jobs[j].pc = "done" =>
                      /\ jobs[j].returned =
                             [is_none |-> FALSE, value |-> res]
                      /\ Len(res) = Len(mine)
                      /\ Len(jobs[j].notified) = 1

C19_Witness ==
    /\ jobs # << >>
    /\ jobs[1].pc = "await" /\ jobs[1].bi = 2
    /\ jobs[2].pc = "done" /\ Len(jobs[2].contact_list) > BatchSize
    /\ Len(heap[1]) = BatchSize
    /\ NamedIn(heap[1]) \cap NamedIn(heap[2]) = {}
    /\ NamedIn(jobs[2].returned.value) = { 51, 52, 53 }

C22_JobSessionOnly ==
    \A p \in 1..Len(posts) : posts[p].session = "job"

\* C25: send_messages, send_carousels, send_template_with_flows and
\* validate_numbers_async with an empty recipient list make no POST to the
\* provider and no pause, leave the result list empty and call notify_user
\* exactly once.
C25_EmptyJob ==
    (Notifies(kind) /\ contact_list = << >>) =>
        /\ posts = << >> /\ sleeps = << >> /\ results = << >>
        /\ pc \in { "entry", "loop", "notify", "done" }
        /\ Len(notified) <= 1
        /\ pc = "done" =>
              /\ Len(notified) = 1 /\ Len(notified[1].posts) = 1
              /\ escaped = "None"
              /\ returned = Returns(kind, << >>)

C25_Witness ==
    /\ kind = "send_messages" /\ contact_list = << >>
    /\ Truthy(csv_variables)
    /\ pc = "done" /\ Len(notified) = 1
    /\ returned = [is_none |-> FALSE, value |-> << >>]

\* C26: in every entry point, send_bot_messages included, no send of the
\* job is in flight once the job's session is closed.
C26_ClosedAfterResolved ==
    session = "closed" => (InFlight = {} /\ Outstanding = 0)

BotVideo == kind = "send_bot_messages" /\ message_type = "video"

\* C23 (as claimed): for message_type video send_bot_message posts the
\* payload of the later video branch (interactive, video header).
C23_LaterVideoBranch ==
    BotVideo =>
        \A p \in 1..Len(posts) :
            posts[p].payload =
                [type |-> "interactive", key |-> "interactive",
                 inner |-> "video header"]

\* C23 (amended): for message_type video send_bot_message posts the
\* payload of the earlier video branch (type video); the later branch
\* never runs.
C23_EarlierVideoBranch ==
    BotVideo =>
        \A p \in 1..Len(posts) :
            posts[p].payload =
                [type |-> "video", key |-> "video", inner |-> "None"]

C23_Witness ==
    /\ BotVideo /\ pc = "done"
    /\ Len(posts) > BatchSize
    /\ posts[1].payload.type = "video"

\* C24: for every message kind, the value of a send that returned normally
\* is a record that names its recipient, has status success, failed or
\* error, and on failure carries the HTTP status code or a client-error
\* classification.
C24_OutcomeShape ==
    \A r \in resolved :
        ~IsException(r.out) =>
            /\ "status" \in DOMAIN r.out
            /\ r.out.status \in { "success", "failed", "error" }
            /\ "contact" \in DOMAIN r.out
            /\ r.out.status = "failed" => "error_code" \in DOMAIN r.out

\* C27: update_balance_and_report returns a report id only when the
\* balance service answered 200, and every failure, a non-200 answer
\* included, reaches the caller as an error with status code 500.
C27_AlwaysFiveHundred ==
    /\ ub_pc = "returned" =>
          /\ ub_answer.type = "http" /\ ub_answer.status = 200
          /\ ub_result = ub_answer.report_id /\ ub_result # "None"
          /\ ub_raised = UbNone
    /\ ub_pc = "raised" =>
          /\ ub_raised.status_code = 500
          /\ ub_result = "None"
    /\ (ub_pc \in { "returned", "raised" } /\ ub_answer.type = "http"
        /\ ub_answer.status # 200) =>
          /\ ub_pc = "raised"
          /\ ub_raised.status_code # ub_answer.status

C27_Witness ==
    /\ ub_pc = "raised"
    /\ ub_answer.type = "http" /\ ub_answer.status = 404
    /\ ub_inner = [exception |-> "HTTPException", status_code |-> 404]
    /\ ub_raised.status_code = 500

\* C28: when the flow dispatch of a request to send_flow_message_api
\* completes, the caller receives the success message if the provider
\* answered 200, and an HTTP error with the provider's status code if it
\* answered another status.
C28_FlowAnswerSurfaced ==
    (fl_pc = "done" /\ fl_dispatch = NoneValue /\ Len(fl_answers) > 0) =>
        IF \A i \in 1..Len(fl_answers) : fl_answers[i].status = 200
        THEN fl_response.kind = "message"
        ELSE /\ fl_response.kind = "http_error"
             /\ \E i \in 1..Len(fl_answers) :
                   /\ fl_answers[i].status # 200
                   /\ fl_response.status_code = fl_answers[i].status

====
